---- MODULE Spec2Model ----
(***************************************************************************)
(* Model of cups/hash.c: cupsHashData() and cupsHashString().              *)
(*                                                                         *)
(* A state is one call: Init draws the build configuration and the         *)
(* arguments of the call (pc = "call"), and the action of the called       *)
(* function produces the return value, the caller's buffers after the      *)
(* call, the _cupsSetError() calls made, the backend digest primitives     *)
(* invoked and the buffer indices written (pc = "return").                 *)
(*                                                                         *)
(* Pointers are records [null, mem]: mem is the object the pointer refers  *)
(* to, the declared sizes (datalen, hashsize, bufsize) are separate        *)
(* arguments as in C.  An output buffer refers to an object of exactly its *)
(* declared size.  Characters are their ASCII codes.  size_t is SizeBits   *)
(* wide; CC_LONG and int are wider, so the (CC_LONG)datalen and            *)
(* (int)datalen casts keep the value.                                      *)
(***************************************************************************)
EXTENDS Integers, Sequences, FiniteSets, TLC

VARIABLES build, have_sha224, func, pc,
          algorithm, data, datalen, hash, hashsize, buffer, bufsize,
          ret, retptr, errors, backend, written

vars == <<build, have_sha224, func, pc,
          algorithm, data, datalen, hash, hashsize, buffer, bufsize,
          ret, retptr, errors, backend, written>>

(***************************************************************************)
(* Bounds                                                                  *)
(***************************************************************************)
SizeBits == 7          \* width of size_t in the model
MaxHashSize == 65      \* largest hashsize passed to cupsHashData
MaxDataLen == 2        \* longest data object passed to cupsHashData

SizeMod == 2 ^ SizeBits

DataBytes == {97, 255}     \* byte values of the data objects
HashSeeds == {15, 169}     \* first byte of the hashes given to cupsHashString
FillByte == 85             \* prior contents of the digest buffer
FillChar == 88             \* prior contents of the string buffer ('X')

(***************************************************************************)
(* Pointers and memory                                                     *)
(***************************************************************************)
NULL == [null |-> TRUE, mem |-> <<>>]

Ptr(m) == [null |-> FALSE, mem |-> m]

\* Bytes src[1..n] stored at the start of the object mem; stores that fall
\* outside the object do not change it (they are recorded in "written").
Store(mem, src, n) ==
  [i \in 1..Len(mem) |-> IF i <= n THEN src[i] ELSE mem[i]]

RECURSIVE SumBytes(_)
SumBytes(s) == IF s = <<>> THEN 0 ELSE Head(s) + SumBytes(Tail(s))

(***************************************************************************)
(* Backend digest primitives (CommonCrypto, GNU TLS, md5-internal): a      *)
(* fixed-length digest that depends on the algorithm and on every byte of  *)
(* the message.                                                            *)
(***************************************************************************)
Digest(salt, len, msg) ==
  [i \in 1..len |-> (salt + 31 * SumBytes(msg) + 7 * Len(msg) + 13 * i) % 256]

\* gnutls_digest_algorithm_t
GNUTLS_DIG_UNKNOWN == "GNUTLS_DIG_UNKNOWN"
GNUTLS_DIG_SHA1 == "GNUTLS_DIG_SHA1"
GNUTLS_DIG_SHA224 == "GNUTLS_DIG_SHA224"
GNUTLS_DIG_SHA256 == "GNUTLS_DIG_SHA256"
GNUTLS_DIG_SHA384 == "GNUTLS_DIG_SHA384"
GNUTLS_DIG_SHA512 == "GNUTLS_DIG_SHA512"

gnutls_hash_get_len(alg) ==
  CASE alg = GNUTLS_DIG_SHA1 -> 20
    [] alg = GNUTLS_DIG_SHA224 -> 28
    [] alg = GNUTLS_DIG_SHA256 -> 32
    [] alg = GNUTLS_DIG_SHA384 -> 48
    [] alg = GNUTLS_DIG_SHA512 -> 64

DigestSalt(prim) ==
  CASE prim = "MD5" -> 1
    [] prim = "SHA1" -> 2
    [] prim = "SHA224" -> 3
    [] prim = "SHA256" -> 4
    [] prim = "SHA384" -> 5
    [] prim = "SHA512" -> 6

\* gnutls_hash_fast(alg, data, datalen, digest)
gnutls_hash_fast(alg, msg) ==
  Digest(DigestSalt(CASE alg = GNUTLS_DIG_SHA1 -> "SHA1"
                      [] alg = GNUTLS_DIG_SHA224 -> "SHA224"
                      [] alg = GNUTLS_DIG_SHA256 -> "SHA256"
                      [] alg = GNUTLS_DIG_SHA384 -> "SHA384"
                      [] alg = GNUTLS_DIG_SHA512 -> "SHA512"),
         gnutls_hash_get_len(alg), msg)

\* CC_<prim>_Init/Update/Final
CC_DigestLength(prim) ==
  CASE prim = "MD5" -> 16
    [] prim = "SHA1" -> 20
    [] prim = "SHA224" -> 28
    [] prim = "SHA256" -> 32
    [] prim = "SHA384" -> 48
    [] prim = "SHA512" -> 64

CC_Digest(prim, msg) == Digest(DigestSalt(prim), CC_DigestLength(prim), msg)

\* _cupsMD5Init/_cupsMD5Append/_cupsMD5Finish
cupsMD5(msg) == Digest(DigestSalt("MD5"), 16, msg)

(***************************************************************************)
(* cupsHashData()                                                          *)
(*                                                                         *)
(* A result is [ret, hash, errors, backend, written]: the value returned,  *)
(* the object behind "hash" after the call, the messages handed to         *)
(* _cupsSetError(), the digest primitives invoked, and the (0-based)       *)
(* indices of "hash" stored to.                                            *)
(***************************************************************************)
\* Mutant: the capacity is not part of the argument check.
BadArguments_NoCapacity(alg, d, dlen, h, hsize) ==
  alg.null \/ d.null \/ dlen = 0 \/ h.null

BadArguments(alg, d, dlen, h, hsize) ==
  alg.null \/ d.null \/ dlen = 0 \/ h.null \/ hsize = 0

\* _cupsSetError(...); return (-1);
Failure(h, message) ==
  [ret |-> -1, hash |-> h.mem, errors |-> <<message>>, backend |-> <<>>,
   written |-> {}]

BadArgumentsError(h) == Failure(h, "Bad arguments to function")

\* Mutant: no return after the report, so control falls into too_small.
UnknownAlgorithm_FallsThrough(h) ==
  [ret |-> -1, hash |-> h.mem,
   errors |-> <<"Unknown hash algorithm.", "Hash buffer too small.">>,
   backend |-> <<>>, written |-> {}]

UnknownAlgorithm(h) == Failure(h, "Unknown hash algorithm.")

\* Mutant: too_small returns -1 without reporting.
too_small_Silent(h) ==
  [ret |-> -1, hash |-> h.mem, errors |-> <<>>, backend |-> <<>>,
   written |-> {}]

\* Mutant: too_small clears the buffer before it reports.
too_small_Clears(h) ==
  [ret |-> -1, hash |-> [i \in 1..Len(h.mem) |-> 0],
   errors |-> <<"Hash buffer too small.">>, backend |-> <<>>,
   written |-> 0..(Len(h.mem) - 1)]

too_small(h) == Failure(h, "Hash buffer too small.")

\* Mutant: a buffer one byte short is accepted.
TooSmall_OffByOne(hsize, length) == hsize < length - 1

\* if (hashsize < LENGTH) goto too_small;
TooSmall(hsize, length) == hsize < length

\* Mutant: the capacity is returned instead of the digest length.
DigestInto_ReturnsCapacity(h, prim, digest) ==
  [ret |-> Len(h.mem), hash |-> Store(h.mem, digest, Len(digest)),
   errors |-> <<>>, backend |-> <<prim>>, written |-> 0..(Len(digest) - 1)]

\* The primitive writes the whole digest at "hash"; return (length).
DigestInto(h, prim, digest) ==
  [ret |-> Len(digest), hash |-> Store(h.mem, digest, Len(digest)),
   errors |-> <<>>, backend |-> <<prim>>, written |-> 0..(Len(digest) - 1)]

\* Mutant: memcpy(hash, temp, sizeof(temp)).
Truncated_CopiesAll(h, prim, temp, tempsize) ==
  [ret |-> tempsize, hash |-> Store(h.mem, temp, Len(temp)),
   errors |-> <<>>, backend |-> <<prim>>, written |-> 0..(Len(temp) - 1)]

\* The primitive writes the digest to temp[64];
\* memcpy(hash, temp, tempsize); return (tempsize).
Truncated(h, prim, temp, tempsize) ==
  [ret |-> tempsize, hash |-> Store(h.mem, temp, tempsize),
   errors |-> <<>>, backend |-> <<prim>>, written |-> 0..(tempsize - 1)]

\* #ifdef __APPLE__: the strcmp() chain over the CommonCrypto digests.
\* "supported" is whether CC_SHA224_DIGEST_LENGTH is defined.
CC_Algorithm(name, supported) ==
  CASE name = "md5" -> [prim |-> "MD5", length |-> 16, temp |-> FALSE]
    [] name = "sha" -> [prim |-> "SHA1", length |-> 20, temp |-> FALSE]
    [] name = "sha2-224" /\ supported ->
         [prim |-> "SHA224", length |-> 28, temp |-> FALSE]
    [] name = "sha2-256" -> [prim |-> "SHA256", length |-> 32, temp |-> FALSE]
    [] name = "sha2-384" -> [prim |-> "SHA384", length |-> 48, temp |-> FALSE]
    [] name = "sha2-512" -> [prim |-> "SHA512", length |-> 64, temp |-> FALSE]
    [] name = "sha2-512_224" /\ supported ->
         [prim |-> "SHA512", length |-> 28, temp |-> TRUE]
    [] name = "sha2-512_256" ->
         [prim |-> "SHA512", length |-> 32, temp |-> TRUE]
    [] OTHER -> [prim |-> "none", length |-> 0, temp |-> FALSE]

HashDataCommonCrypto(alg, d, dlen, h, hsize, supported) ==
  LET a == CC_Algorithm(alg.str, supported)
      msg == SubSeq(d.mem, 1, dlen)
  IN  IF a.prim = "none" THEN UnknownAlgorithm(h)
      ELSE IF TooSmall(hsize, a.length) THEN too_small(h)
      ELSE IF a.temp
        THEN Truncated(h, a.prim, CC_Digest(a.prim, msg), a.length)
        ELSE DigestInto(h, a.prim, CC_Digest(a.prim, msg))

\* #elif defined(HAVE_GNUTLS): alg and tempsize after the strcmp() chain
\* ("md5" is handled before it, by md5-internal).
GNUTLS_Algorithm(name) ==
  CASE name = "sha" -> [alg |-> GNUTLS_DIG_SHA1, tempsize |-> 0]
    [] name = "sha2-224" -> [alg |-> GNUTLS_DIG_SHA224, tempsize |-> 0]
    [] name = "sha2-256" -> [alg |-> GNUTLS_DIG_SHA256, tempsize |-> 0]
    [] name = "sha2-384" -> [alg |-> GNUTLS_DIG_SHA384, tempsize |-> 0]
    [] name = "sha2-512" -> [alg |-> GNUTLS_DIG_SHA512, tempsize |-> 0]
    [] name = "sha2-512_224" -> [alg |-> GNUTLS_DIG_SHA512, tempsize |-> 28]
    [] name = "sha2-512_256" -> [alg |-> GNUTLS_DIG_SHA512, tempsize |-> 32]
    [] OTHER -> [alg |-> GNUTLS_DIG_UNKNOWN, tempsize |-> 0]

\* _cupsMD5Append(&state, data, (int)datalen)
HashDataMD5(d, dlen, h, hsize) ==
  IF TooSmall(hsize, 16) THEN too_small(h)
  ELSE DigestInto(h, "MD5", cupsMD5(SubSeq(d.mem, 1, dlen)))

HashDataGNUTLS(alg, d, dlen, h, hsize) ==
  LET a == GNUTLS_Algorithm(alg.str)
      msg == SubSeq(d.mem, 1, dlen)
  IN  IF alg.str = "md5" THEN HashDataMD5(d, dlen, h, hsize)
      ELSE IF a.alg # GNUTLS_DIG_UNKNOWN
        THEN IF a.tempsize > 0
               THEN IF TooSmall(hsize, a.tempsize) THEN too_small(h)
                    ELSE Truncated(h, a.alg, gnutls_hash_fast(a.alg, msg),
                                   a.tempsize)
               ELSE IF TooSmall(hsize, gnutls_hash_get_len(a.alg))
                      THEN too_small(h)
                    ELSE DigestInto(h, a.alg, gnutls_hash_fast(a.alg, msg))
        ELSE UnknownAlgorithm(h)

\* #else: no hash support beyond MD5
HashDataFallback(alg, d, dlen, h, hsize) ==
  IF alg.str = "md5" THEN HashDataMD5(d, dlen, h, hsize)
  ELSE IF TooSmall(hsize, 64) THEN too_small(h)
  ELSE UnknownAlgorithm(h)

cupsHashDataResult(bld, supported, alg, d, dlen, h, hsize) ==
  IF BadArguments(alg, d, dlen, h, hsize) THEN BadArgumentsError(h)
  ELSE IF bld = "__APPLE__"
    THEN HashDataCommonCrypto(alg, d, dlen, h, hsize, supported)
  ELSE IF bld = "HAVE_GNUTLS" THEN HashDataGNUTLS(alg, d, dlen, h, hsize)
  ELSE HashDataFallback(alg, d, dlen, h, hsize)

(***************************************************************************)
(* cupsHashString()                                                        *)
(***************************************************************************)
\* static const char *hex = "0123456789abcdef";
hex == <<48, 49, 50, 51, 52, 53, 54, 55, 56, 57, 97, 98, 99, 100, 101, 102>>

\* Mutant: the low nibble is written first.
HexPair_LowFirst(byte) == <<hex[(byte % 16) + 1], hex[(byte \div 16) + 1]>>

\* hex[*hash >> 4], hex[*hash & 15]
HexPair(byte) == <<hex[(byte \div 16) + 1], hex[(byte % 16) + 1]>>

\* while (hashsize > 0) { *bufptr++ = ...; *bufptr++ = ...; hash ++;
\* hashsize --; }  *bufptr = '\0';
\* "out" is what has been stored through bufptr so far, "i" the index of
\* *hash.
RECURSIVE HexLoop(_, _, _, _)
HexLoop(h, i, hsize, out) ==
  IF hsize > 0 THEN HexLoop(h, i + 1, hsize - 1, out \o HexPair(h[i]))
  ELSE Append(out, 0)

\* bufsize < (2 * hashsize + 1), in size_t arithmetic
RangeError(h, hsize, buf, bsize) ==
  h.null \/ hsize < 1 \/ buf.null \/ bsize < (2 * hsize + 1) % SizeMod

\* A result is [retptr, buffer, errors, written].
cupsHashStringResult(h, hsize, buf, bsize) ==
  IF RangeError(h, hsize, buf, bsize)
    THEN IF buf.null
           THEN [retptr |-> "NULL", buffer |-> buf.mem, errors |-> <<>>,
                 written |-> {}]
           ELSE [retptr |-> "NULL", buffer |-> Store(buf.mem, <<0>>, 1),
                 errors |-> <<>>, written |-> {0}]
    ELSE LET out == HexLoop(h.mem, 1, hsize, <<>>)
         IN  [retptr |-> "buffer", buffer |-> Store(buf.mem, out, Len(out)),
              errors |-> <<>>, written |-> 0..(Len(out) - 1)]

(***************************************************************************)
(* The calls                                                               *)
(***************************************************************************)
Recognized ==
  {"md5", "sha", "sha2-224", "sha2-256", "sha2-384", "sha2-512",
   "sha2-512_224", "sha2-512_256"}

Unrecognized == {"not-a-real-algorithm", "sha-256", "MD5"}

NullString == [null |-> TRUE, str |-> ""]

String(s) == [null |-> FALSE, str |-> s]

Algorithms == {NullString} \cup {String(s) : s \in Recognized \cup Unrecognized}

SeqsUpTo(S, n) == UNION {[1..k -> S] : k \in 0..n}

Fill(n, byte) == [i \in 1..n |-> byte]

\* The hash handed to cupsHashString: n bytes that start at seed and cover
\* every nibble value.
HashBytes(seed, n) == [i \in 1..n |-> (seed + 37 * (i - 1)) % 256]

\* The build configurations of the #ifdef chain; CC_SHA224_DIGEST_LENGTH
\* is only looked at under __APPLE__.
Builds ==
  {[build |-> "__APPLE__", sha224 |-> TRUE],
   [build |-> "__APPLE__", sha224 |-> FALSE],
   [build |-> "HAVE_GNUTLS", sha224 |-> TRUE],
   [build |-> "none", sha224 |-> TRUE]}

NoResult ==
  /\ pc = "call"
  /\ ret = 0
  /\ retptr = "none"
  /\ errors = <<>>
  /\ backend = <<>>
  /\ written = {}

InitHashData ==
  /\ func = "cupsHashData"
  /\ \E b \in Builds : build = b.build /\ have_sha224 = b.sha224
  /\ algorithm \in Algorithms
  /\ \E m \in SeqsUpTo(DataBytes, MaxDataLen) :
       \/ data = Ptr(m) /\ datalen \in 0..Len(m)
       \/ data = NULL /\ datalen = Len(m)
  /\ hashsize \in 0..MaxHashSize
  /\ hash \in {NULL, Ptr(Fill(hashsize, FillByte))}
  /\ buffer = NULL
  /\ bufsize = 0
  /\ NoResult

\* The capacities tried with a hash of n bytes: the smallest and the largest
\* ones, those around 2n + 1, and those around 2n + 1 as size_t computes it.
BufSizes(n) ==
  {b \in 0..(SizeMod - 1) :
     \/ b <= 2
     \/ b = SizeMod - 1
     \/ b - (2 * n + 1) \in -2..2
     \/ b - ((2 * n + 1) % SizeMod) \in -2..2}

\* cupsHashString has no conditional code: one build stands for all.
InitHashString ==
  /\ func = "cupsHashString"
  /\ build = "HAVE_GNUTLS"
  /\ have_sha224 = TRUE
  /\ algorithm = NullString
  /\ data = NULL
  /\ datalen = 0
  /\ hashsize \in 0..(SizeMod - 1)
  /\ hash \in {NULL} \cup {Ptr(HashBytes(s, hashsize)) : s \in HashSeeds}
  /\ bufsize \in BufSizes(hashsize)
  /\ buffer \in {NULL, Ptr(Fill(bufsize, FillChar))}
  /\ NoResult

Init == InitHashData \/ InitHashString

CupsHashData ==
  /\ pc = "call"
  /\ func = "cupsHashData"
  /\ LET r == cupsHashDataResult(build, have_sha224, algorithm, data, datalen,
                                 hash, hashsize)
     IN  /\ ret' = r.ret
         /\ hash' = [hash EXCEPT !.mem = r.hash]
         /\ errors' = r.errors
         /\ backend' = r.backend
         /\ written' = r.written
  /\ pc' = "return"
  /\ UNCHANGED <<build, have_sha224, func, algorithm, data, datalen, hashsize,
                 buffer, bufsize, retptr>>

CupsHashString ==
  /\ pc = "call"
  /\ func = "cupsHashString"
  /\ LET r == cupsHashStringResult(hash, hashsize, buffer, bufsize)
     IN  /\ retptr' = r.retptr
         /\ buffer' = [buffer EXCEPT !.mem = r.buffer]
         /\ errors' = r.errors
         /\ written' = r.written
  /\ pc' = "return"
  /\ UNCHANGED <<build, have_sha224, func, algorithm, data, datalen, hash,
                 hashsize, bufsize, ret, backend>>

Next == CupsHashData \/ CupsHashString

Spec == Init /\ [][Next]_vars

(***************************************************************************)
(* Vocabulary of the properties                                            *)
(***************************************************************************)
\* The digest length table of the interface
CanonicalLength(name) ==
  CASE name = "md5" -> 16
    [] name = "sha" -> 20
    [] name = "sha2-224" -> 28
    [] name = "sha2-256" -> 32
    [] name = "sha2-384" -> 48
    [] name = "sha2-512" -> 64
    [] name = "sha2-512_224" -> 28
    [] name = "sha2-512_256" -> 32

BadArgumentsMessage == <<"Bad arguments to function">>
UnknownMessage == <<"Unknown hash algorithm.">>
TooSmallMessage == <<"Hash buffer too small.">>

Returned(f) == pc = "return" /\ func = f

\* non-null data of length >= 1
DataGiven == ~data.null /\ datalen >= 1

\* a recognized algorithm identifier
RecognizedName == ~algorithm.null /\ algorithm.str \in Recognized

\* The two names compiled out of a CommonCrypto build that lacks
\* CC_SHA224_DIGEST_LENGTH
NeedsSHA224 == {"sha2-224", "sha2-512_224"}

CompiledOut(name) ==
  build = "__APPLE__" /\ ~have_sha224 /\ name \in NeedsSHA224

\* The build has a digest for the name.
Provided(name) ==
  \/ build = "HAVE_GNUTLS"
  \/ build = "__APPLE__" /\ ~CompiledOut(name)
  \/ build = "none" /\ name = "md5"

\* C1 as stated: every recognized identifier, with non-empty data and a
\* capacity of at least its canonical length, returns the canonical length.
C1_AsStated ==
  (Returned("cupsHashData") /\ RecognizedName /\ DataGiven /\ ~hash.null
     /\ hashsize >= CanonicalLength(algorithm.str))
    => ret = CanonicalLength(algorithm.str)

\* C1 amended: every recognized identifier the build has a digest for, with
\* non-empty data and a capacity of at least its canonical length, returns
\* exactly the canonical length, whatever the capacity.
C1_CanonicalLength ==
  (Returned("cupsHashData") /\ RecognizedName /\ DataGiven /\ ~hash.null
     /\ hashsize >= CanonicalLength(algorithm.str)
     /\ Provided(algorithm.str))
    => ret = CanonicalLength(algorithm.str)

C1_Witness ==
  /\ Returned("cupsHashData")
  /\ DataGiven
  /\ ~algorithm.null
  /\ algorithm.str = "sha2-384"
  /\ Provided("sha2-384")
  /\ ~hash.null
  /\ hashsize > 48
  /\ ret = 48

\* C2 as stated: an unrecognized name with otherwise valid arguments is the
\* unknown-algorithm failure for every capacity >= 1.
C2_AsStated ==
  (Returned("cupsHashData") /\ ~algorithm.null
     /\ algorithm.str \notin Recognized /\ DataGiven /\ ~hash.null
     /\ hashsize >= 1)
    => (ret = -1 /\ errors = UnknownMessage)

\* C2 amended: an unrecognized name with otherwise valid arguments is the
\* unknown-algorithm failure for every capacity >= 1 in the CommonCrypto and
\* GNU TLS builds; in the MD5-only build it is the unknown-algorithm failure
\* for every capacity >= 64 and the buffer-too-small failure below 64.
C2_UnknownAlgorithm ==
  (Returned("cupsHashData") /\ ~algorithm.null
     /\ algorithm.str \notin Recognized /\ DataGiven /\ ~hash.null
     /\ hashsize >= 1)
    => /\ ret = -1
       /\ errors = IF build = "none" /\ hashsize < 64 THEN TooSmallMessage
                   ELSE UnknownMessage

C2_Witness ==
  /\ Returned("cupsHashData")
  /\ DataGiven
  /\ ~algorithm.null
  /\ algorithm.str = "not-a-real-algorithm"
  /\ build = "HAVE_GNUTLS"
  /\ ~hash.null
  /\ hashsize = 1
  /\ ret = -1
  /\ errors = UnknownMessage

Failed ==
  \/ func = "cupsHashData" /\ ret = -1
  \/ func = "cupsHashString" /\ retptr = "NULL"

C4_AsStated ==
  (Returned("cupsHashData") /\ RecognizedName /\ DataGiven /\ ~hash.null
     /\ hashsize >= 1 /\ hashsize < CanonicalLength(algorithm.str))
    => (ret = -1 /\ errors = TooSmallMessage /\ backend = <<>>)

\* C4 amended: every recognized identifier that is not compiled out of the
\* build (sha2-224 and sha2-512_224 are, under CommonCrypto without
\* CC_SHA224_DIGEST_LENGTH), with non-empty data and a capacity of at least
\* 1 and less than its canonical length, is the buffer-too-small failure,
\* and no digest primitive is invoked.
C4_BufferTooSmall ==
  (Returned("cupsHashData") /\ RecognizedName /\ DataGiven /\ ~hash.null
     /\ hashsize >= 1 /\ hashsize < CanonicalLength(algorithm.str)
     /\ ~CompiledOut(algorithm.str))
    => (ret = -1 /\ errors = TooSmallMessage /\ backend = <<>>)

C4_Witness ==
  /\ Returned("cupsHashData")
  /\ DataGiven
  /\ ~algorithm.null
  /\ algorithm.str = "sha2-512"
  /\ Provided("sha2-512")
  /\ ~hash.null
  /\ hashsize = 63
  /\ ret = -1
  /\ errors = TooSmallMessage

\* C5: a null algorithm, null data, a data length of 0, a null hash buffer
\* or a capacity of 0 is the invalid-argument failure whatever the other
\* arguments are, before the name is looked up or the capacity compared:
\* nothing is hashed and buffer-too-small is not reported.
C5_BadArguments ==
  (Returned("cupsHashData")
     /\ (algorithm.null \/ data.null \/ datalen = 0 \/ hash.null
           \/ hashsize = 0))
    => (ret = -1 /\ errors = BadArgumentsMessage /\ backend = <<>>)

C5_Witness ==
  /\ Returned("cupsHashData")
  /\ RecognizedName
  /\ DataGiven
  /\ ~hash.null
  /\ hashsize = 0
  /\ ret = -1
  /\ errors = BadArgumentsMessage

\* C6: a cupsHashData call that returns -1 leaves every byte of the digest
\* buffer as it was before the call and stores to none of them.
C6_FailureLeavesBuffer ==
  [][(func = "cupsHashData" /\ ret' = -1)
       => (hash' = hash /\ written' = {})]_vars

C6_Witness ==
  /\ Returned("cupsHashData")
  /\ RecognizedName
  /\ DataGiven
  /\ ~hash.null
  /\ hashsize >= 1
  /\ ret = -1
  /\ errors = TooSmallMessage
  /\ hash.mem = Fill(hashsize, FillByte)

\* The character of a nibble value, and the value of a hex character
HexChar(v) == IF v < 10 THEN 48 + v ELSE 87 + v

HexValue(c) == IF c \in 48..57 THEN c - 48 ELSE c - 87

LowerHex == (48..57) \cup (97..102)

\* Decoding a string of 2n hex characters pairwise into n bytes
Decode(str, n) ==
  [i \in 1..n |-> 16 * HexValue(str[2 * i - 1]) + HexValue(str[2 * i])]

\* C7: for a hash of n >= 1 bytes and a capacity of at least 2n+1,
\* cupsHashString returns the buffer holding 2n characters of 0-9a-f and
\* then the terminator; characters 2i and 2i+1 are the high and the low
\* nibble of byte i, in input order; decoding them pairwise gives the hash.
C7_HexRoundTrip ==
  (Returned("cupsHashString") /\ ~hash.null /\ hashsize >= 1
     /\ ~buffer.null /\ bufsize >= 2 * hashsize + 1)
    => /\ retptr = "buffer"
       /\ buffer.mem[2 * hashsize + 1] = 0
       /\ \A k \in 1..(2 * hashsize) : buffer.mem[k] \in LowerHex
       /\ \A i \in 1..hashsize :
            /\ buffer.mem[2 * i - 1] = HexChar(hash.mem[i] \div 16)
            /\ buffer.mem[2 * i] = HexChar(hash.mem[i] % 16)
       /\ Decode(buffer.mem, hashsize) = hash.mem

C7_Witness ==
  /\ Returned("cupsHashString")
  /\ ~hash.null
  /\ hashsize = 3
  /\ hash.mem = <<169, 206, 243>>
  /\ ~buffer.null
  /\ bufsize = 7
  /\ retptr = "buffer"
  /\ buffer.mem = <<97, 57, 99, 101, 102, 51, 0>>

\* C8 as stated: with a non-null buffer and a null hash, a hash length of 0
\* or a capacity smaller than 2n+1, cupsHashString returns NULL and the
\* first byte of the buffer is the terminator.
C8_AsStated ==
  (Returned("cupsHashString") /\ ~buffer.null
     /\ (hash.null \/ hashsize = 0 \/ bufsize < 2 * hashsize + 1))
    => (retptr = "NULL" /\ Len(buffer.mem) >= 1 /\ buffer.mem[1] = 0)

\* C9 as stated: sha2-512_224 (sha2-512_256) with non-empty data and a
\* capacity of at least 28 (32) returns 28 (32), writes the first 28 (32)
\* bytes of what sha2-512 writes for the same data into 64 bytes, and
\* leaves the bytes from index 28 (32) on as they were.
SHA512Reference ==
  cupsHashDataResult(build, have_sha224, String("sha2-512"), data, datalen,
                     Ptr(Fill(64, FillByte)), 64).hash

TruncationOf(name, n) ==
  (Returned("cupsHashData") /\ ~algorithm.null /\ algorithm.str = name
     /\ DataGiven /\ ~hash.null /\ hashsize >= n)
    => /\ ret = n
       /\ SubSeq(hash.mem, 1, n) = SubSeq(SHA512Reference, 1, n)
       /\ \A i \in (n + 1)..hashsize : hash.mem[i] = FillByte
       /\ written = 0..(n - 1)

C9_AsStated ==
  TruncationOf("sha2-512_224", 28) /\ TruncationOf("sha2-512_256", 32)

\* C9 amended: in a build that has a digest for the truncated name,
\* sha2-512_224 (sha2-512_256) with non-empty data and a capacity of at
\* least 28 (32) returns 28 (32), writes the first 28 (32) bytes of what
\* sha2-512 writes for the same data into 64 bytes, and leaves the bytes
\* from index 28 (32) on as they were.
C9_Truncation ==
  /\ Provided("sha2-512_224") => TruncationOf("sha2-512_224", 28)
  /\ Provided("sha2-512_256") => TruncationOf("sha2-512_256", 32)

C9_Witness ==
  /\ Returned("cupsHashData")
  /\ ~algorithm.null
  /\ algorithm.str = "sha2-512_224"
  /\ Provided("sha2-512_224")
  /\ DataGiven
  /\ ~hash.null
  /\ hashsize = 40
  /\ ret = 28
  /\ hash.mem[28] # FillByte
  /\ hash.mem[29] = FillByte

\* C10 as stated: every byte cupsHashString stores through a non-null
\* buffer is at an index less than the declared capacity.
C10_AsStated ==
  (Returned("cupsHashString") /\ ~buffer.null)
    => \A i \in written : i < bufsize

====
